---- MODULE Spec2Model ----
(***************************************************************************)
(* Model of the network-on-chip benchmarking scripts:                      *)
(*   generate_table.py  - static routing table of an 8x4 mesh with four    *)
(*                        hard-wired shortcut links (XY routing);          *)
(*   dashboard.py       - mesh augmentation with random shortcut links,    *)
(*                        synthetic workload generation and the latency /  *)
(*                        throughput simulation.                           *)
(* Each routine is a state machine of its own (SpecTable, SpecWalk,        *)
(* SpecLinks, SpecWorkload, SpecSim); the variables of the routines that   *)
(* a specification does not run stay at their idle values.                 *)
(***************************************************************************)
EXTENDS Integers, Sequences, FiniteSets

VARIABLES
    \* generate_table.py, the module-level table loop
    tpc, s, d, row, table,
    \* repeated application of xy_next_hop
    wsrc, wdst, pos, steps,
    \* add_small_world_links
    lpc, heap, graph, new_graph, nodes, added_edges, num_shortcuts, graph0,
    \* generate_workload
    gpc, gnodes, num_packets, gi, gworkload,
    \* simulate_network
    spc, topology, workload, latency_per_hop, si, results,
    simulation_end_time, packets_delivered, average_latency, throughput

tableVars == <<tpc, s, d, row, table>>
walkVars  == <<wsrc, wdst, pos, steps>>
linkVars  == <<lpc, heap, graph, new_graph, nodes, added_edges, num_shortcuts, graph0>>
genVars   == <<gpc, gnodes, num_packets, gi, gworkload>>
simVars   == <<spc, topology, workload, latency_per_hop, si, results,
               simulation_end_time, packets_delivered, average_latency, throughput>>
vars      == <<tableVars, walkVars, linkVars, genVars, simVars>>

notTableVars == <<walkVars, linkVars, genVars, simVars>>
notWalkVars  == <<tableVars, linkVars, genVars, simVars>>
notLinksVars == <<tableVars, walkVars, genVars, simVars>>
notGenVars   == <<tableVars, walkVars, linkVars, simVars>>
notSimVars   == <<tableVars, walkVars, linkVars, genVars>>

\* ------------------------------------------------------------------------
\* Bounds of the model (not program constants)

\* grids handed to add_small_world_links have 1..MaxSide rows and columns
MaxSide == 2
\* add_small_world_links is asked for 0..MaxShortcuts shortcuts
MaxShortcuts == 2
\* generate_workload is asked for 0..MaxPackets packets; simulate_network is
\* given workloads of 0..MaxPackets packets
MaxPackets == 2
\* simulate_network runs on graphs of 1..MaxSimNodes nodes
MaxSimNodes == 3

\* ------------------------------------------------------------------------
\* Small helpers

Abs(x) == IF x < 0 THEN -x ELSE x

Max(a, b) == IF a >= b THEN a ELSE b

RECURSIVE SetSum(_, _)
\* the sum of f[x] over the finite set xs
SetSum(f, xs) ==
    IF xs = {} THEN 0
    ELSE LET x == CHOOSE y \in xs : TRUE IN f[x] + SetSum(f, xs \ {x})

\* ========================================================================
\* generate_table.py
\* ========================================================================

W == 8
H == 4

N == 0
E == 1
S == 2
WDIR == 3
L == 4

\* the dict literal, in insertion order: <<a, b, port>>
shortcut_ports ==
    << <<0, 31, 5>>, <<7, 24, 6>>, <<12, 20, 7>>, <<4, 28, 8>> >>

id2coord(i) == <<i % W, i \div W>>

xy_next_hop_swapped(src, dst) ==
    LET sx == id2coord(src)[1]
        sy == id2coord(src)[2]
        dx == id2coord(dst)[1]
        dy == id2coord(dst)[2]
    IN  IF src = dst THEN L
        ELSE IF dx > sx THEN E
        ELSE IF dx < sx THEN WDIR
        ELSE IF dy > sy THEN N
        ELSE S

xy_next_hop_nolocal(src, dst) ==
    LET sx == id2coord(src)[1]
        sy == id2coord(src)[2]
        dx == id2coord(dst)[1]
        dy == id2coord(dst)[2]
    IN  IF dx > sx THEN E
        ELSE IF dx < sx THEN WDIR
        ELSE IF dy > sy THEN S
        ELSE N

xy_next_hop(src, dst) ==
    LET sx == id2coord(src)[1]
        sy == id2coord(src)[2]
        dx == id2coord(dst)[1]
        dy == id2coord(dst)[2]
    IN  IF src = dst THEN L
        ELSE IF dx > sx THEN E
        ELSE IF dx < sx THEN WDIR
        ELSE IF dy > sy THEN S
        ELSE N

shortcut_match_oneway(src, dst, a, b) == src = a /\ dst = b

\* the condition of the inner loop's if
shortcut_match(src, dst, a, b) ==
    (src = a /\ dst = b) \/ (src = b /\ dst = a)

RECURSIVE shortcut_scan(_, _, _)
\* the inner for loop over shortcut_ports.items(), from entry k on: the first
\* matching entry assigns its port and breaks
shortcut_scan(src, dst, k) ==
    IF k > Len(shortcut_ports) THEN [assigned |-> FALSE, port |-> L]
    ELSE IF shortcut_match(src, dst, shortcut_ports[k][1], shortcut_ports[k][2])
         THEN [assigned |-> TRUE, port |-> shortcut_ports[k][3]]
         ELSE shortcut_scan(src, dst, k + 1)

\* what the body of the d loop appends to row
table_cell(src, dst) ==
    LET hit == shortcut_scan(src, dst, 1)
    IN  IF hit.assigned THEN hit.port ELSE xy_next_hop(src, dst)

TableInit ==
    /\ tpc = "row"
    /\ s = 0
    /\ d = 0
    /\ row = <<>>
    /\ table = <<>>

\* for s in range(W*H): row = []
TableRowStart ==
    /\ tpc = "row"
    /\ s < W * H
    /\ row' = <<>>
    /\ d' = 0
    /\ tpc' = "cell"
    /\ UNCHANGED <<s, table>>
    /\ UNCHANGED notTableVars

\* one iteration of for d in range(W*H)
TableCell ==
    /\ tpc = "cell"
    /\ d < W * H
    /\ row' = Append(row, table_cell(s, d))
    /\ d' = d + 1
    /\ UNCHANGED <<tpc, s, table>>
    /\ UNCHANGED notTableVars

\* print(" ".join(map(str, row))): the row becomes the next line of output
\* (the line is kept as its list of ports), and the s loop advances
TableRowEnd ==
    /\ tpc = "cell"
    /\ d = W * H
    /\ table' = Append(table, row)
    /\ s' = s + 1
    /\ tpc' = "row"
    /\ UNCHANGED <<d, row>>
    /\ UNCHANGED notTableVars

\* range(W*H) is exhausted: the script ends
TableDone ==
    /\ tpc = "row"
    /\ s = W * H
    /\ tpc' = "done"
    /\ UNCHANGED <<s, d, row, table>>
    /\ UNCHANGED notTableVars

TableNext == TableRowStart \/ TableCell \/ TableRowEnd \/ TableDone

TableIdle ==
    /\ tpc = "idle"
    /\ s = 0
    /\ d = 0
    /\ row = <<>>
    /\ table = <<>>

\* ------------------------------------------------------------------------
\* xy_next_hop applied hop by hop from a source toward a fixed destination

\* one grid step in the direction of a port
Move(p, port) ==
    IF port = E THEN <<p[1] + 1, p[2]>>
    ELSE IF port = WDIR THEN <<p[1] - 1, p[2]>>
    ELSE IF port = S THEN <<p[1], p[2] + 1>>
    ELSE IF port = N THEN <<p[1], p[2] - 1>>
    ELSE p

coord2id(p) == p[1] + p[2] * W

InGrid(p) == p[1] \in 0..(W - 1) /\ p[2] \in 0..(H - 1)

WalkInit ==
    /\ wsrc \in 0..(W * H - 1)
    /\ wdst \in 0..(W * H - 1)
    /\ ~shortcut_scan(wsrc, wdst, 1).assigned
    /\ pos = id2coord(wsrc)
    /\ steps = 0

\* one hop: ask xy_next_hop at the current position, move one step that way
WalkStep ==
    /\ InGrid(pos)
    /\ coord2id(pos) # wdst
    /\ pos' = Move(pos, xy_next_hop(coord2id(pos), wdst))
    /\ steps' = steps + 1
    /\ UNCHANGED <<wsrc, wdst>>
    /\ UNCHANGED notWalkVars

WalkNext == WalkStep

WalkIdle ==
    /\ wsrc = 0
    /\ wdst = 0
    /\ pos = <<0, 0>>
    /\ steps = 0

\* ========================================================================
\* dashboard.py: topologies
\* ========================================================================

\* A graph is [nodes |-> set of <<row, col>>, edges |-> set of {u, v}]:
\* networkx.Graph keeps one undirected edge per unordered pair of nodes.

GridNodes(rows, cols) ==
    {<<r, c>> : r \in 0..(rows - 1), c \in 0..(cols - 1)}

Pairs(ns) == {{u, v} : u \in ns, v \in ns} \ {{u} : u \in ns}

Manhattan(u, v) == Abs(u[1] - v[1]) + Abs(u[2] - v[2])

\* nx.grid_2d_graph(rows, cols)
create_mesh_topology(rows, cols) ==
    [nodes |-> GridNodes(rows, cols),
     edges |-> {e \in Pairs(GridNodes(rows, cols)) :
                  \E u \in e, v \in e : Manhattan(u, v) = 1}]

\* nx.non_edges(g), as the set of unordered pairs it yields
non_edges(g) == Pairs(g.nodes) \ g.edges

has_edge(g, u, v) == {u, v} \in g.edges

add_edge(g, u, v) == [g EXCEPT !.edges = @ \cup {{u, v}}]

NoGraph == [nodes |-> {}, edges |-> {}]

graph_alias(h, ref) == [heap |-> h, ref |-> ref]

\* graph.copy(): a new graph object holding the same nodes and edges
graph_copy(h, ref) == [heap |-> [h EXCEPT ![ref + 1] = h[ref]], ref |-> ref + 1]

link_ok_any_distance(g, u, v) == ~has_edge(g, u, v)

\* the condition under which a sampled pair becomes a shortcut
link_ok(g, u, v) == ~has_edge(g, u, v) /\ Manhattan(u, v) > 1

\* the topologies add_small_world_links is run on: a mesh, a mesh that
\* lacks one of its links, a mesh that already has one long link
InputTopologies ==
    UNION {
        LET m == create_mesh_topology(rows, cols)
        IN  {m}
            \cup {[m EXCEPT !.edges = @ \ {e}] : e \in m.edges}
            \cup {[m EXCEPT !.edges = @ \cup {e}] : e \in non_edges(m)}
        : rows \in 1..MaxSide, cols \in 1..MaxSide }

LinksInit ==
    /\ lpc = "start"
    /\ graph0 \in InputTopologies
    /\ graph = 1
    /\ heap = [r \in 1..2 |-> IF r = 1 THEN graph0 ELSE NoGraph]
    /\ new_graph = 0
    /\ nodes = {}
    /\ added_edges = 0
    /\ num_shortcuts \in 0..MaxShortcuts

\* new_graph = graph.copy(); nodes = list(new_graph.nodes()); added_edges = 0
LinksCopy ==
    /\ lpc = "start"
    /\ LET c == graph_copy(heap, graph)
       IN  /\ heap' = c.heap
           /\ new_graph' = c.ref
           /\ nodes' = c.heap[c.ref].nodes
    /\ added_edges' = 0
    /\ lpc' = "while"
    /\ UNCHANGED <<graph, num_shortcuts, graph0>>
    /\ UNCHANGED notLinksVars

\* the while condition fails: return new_graph
LinksReturn ==
    /\ lpc = "while"
    /\ ~(added_edges < num_shortcuts)
    /\ lpc' = "done"
    /\ UNCHANGED <<heap, graph, new_graph, nodes, added_edges, num_shortcuts, graph0>>
    /\ UNCHANGED notLinksVars

\* if len(list(nx.non_edges(new_graph))) == 0: break
LinksBreak ==
    /\ lpc = "while"
    /\ added_edges < num_shortcuts
    /\ Cardinality(non_edges(heap[new_graph])) = 0
    /\ lpc' = "done"
    /\ UNCHANGED <<heap, graph, new_graph, nodes, added_edges, num_shortcuts, graph0>>
    /\ UNCHANGED notLinksVars

\* the guard passes: the loop body goes on to sample
LinksEnter ==
    /\ lpc = "while"
    /\ added_edges < num_shortcuts
    /\ Cardinality(non_edges(heap[new_graph])) # 0
    /\ lpc' = "sample"
    /\ UNCHANGED <<heap, graph, new_graph, nodes, added_edges, num_shortcuts, graph0>>
    /\ UNCHANGED notLinksVars

\* u, v = random.sample(nodes, 2), and the pair passes the test.
\* (random.sample raises ValueError on fewer than 2 nodes; the guard above lets
\* the loop come here only when a non-edge, hence two nodes, exists.)
LinksSampleAdd ==
    /\ lpc = "sample"
    /\ \E u \in nodes, v \in nodes :
          /\ u # v
          /\ link_ok(heap[new_graph], u, v)
          /\ heap' = [heap EXCEPT ![new_graph] = add_edge(@, u, v)]
    /\ added_edges' = added_edges + 1
    /\ lpc' = "while"
    /\ UNCHANGED <<graph, new_graph, nodes, num_shortcuts, graph0>>
    /\ UNCHANGED notLinksVars

\* u, v = random.sample(nodes, 2), and the pair fails the test
LinksSampleSkip ==
    /\ lpc = "sample"
    /\ \E u \in nodes, v \in nodes :
          /\ u # v
          /\ ~link_ok(heap[new_graph], u, v)
    /\ lpc' = "while"
    /\ UNCHANGED <<heap, graph, new_graph, nodes, added_edges, num_shortcuts, graph0>>
    /\ UNCHANGED notLinksVars

LinksNext ==
    \/ LinksCopy
    \/ LinksReturn
    \/ LinksBreak
    \/ LinksEnter
    \/ LinksSampleAdd
    \/ LinksSampleSkip

LinksIdle ==
    /\ lpc = "idle"
    /\ graph0 = NoGraph
    /\ graph = 0
    /\ heap = <<>>
    /\ new_graph = 0
    /\ nodes = {}
    /\ added_edges = 0
    /\ num_shortcuts = 0

\* ========================================================================
\* dashboard.py: workload
\* ========================================================================

\* Packet.__init__
Packet(packet_id, source, destination, start_time) ==
    [id |-> packet_id, source |-> source, destination |-> destination,
     start_time |-> start_time, end_time |-> 0, hop_count |-> 0]

\* the node lists handed to generate_workload: list(mesh.nodes()) of a mesh
\* of 0..MaxSide rows and columns
GenInit ==
    /\ gpc = "loop"
    /\ gnodes \in {GridNodes(rows, cols) : rows \in 0..MaxSide, cols \in 0..MaxSide}
    /\ num_packets \in 0..MaxPackets
    /\ gi = 0
    /\ gworkload = <<>>

\* one iteration of for i in range(num_packets), random.sample(nodes, 2)
\* having two nodes to draw
GenPacket ==
    /\ gpc = "loop"
    /\ gi < num_packets
    /\ \E source \in gnodes, destination \in gnodes :
          /\ source # destination
          /\ gworkload' = Append(gworkload, Packet(gi, source, destination, gi * 2))
    /\ gi' = gi + 1
    /\ UNCHANGED <<gpc, gnodes, num_packets>>
    /\ UNCHANGED notGenVars

\* one iteration of the loop when random.sample(nodes, 2) has fewer than two
\* nodes to draw from: it raises ValueError, which nothing catches
GenRaise ==
    /\ gpc = "loop"
    /\ gi < num_packets
    /\ Cardinality(gnodes) < 2
    /\ gpc' = "raised"
    /\ UNCHANGED <<gnodes, num_packets, gi, gworkload>>
    /\ UNCHANGED notGenVars

\* range(num_packets) is exhausted: return workload
GenReturn ==
    /\ gpc = "loop"
    /\ ~(gi < num_packets)
    /\ gpc' = "done"
    /\ UNCHANGED <<gnodes, num_packets, gi, gworkload>>
    /\ UNCHANGED notGenVars

GenNext == GenPacket \/ GenRaise \/ GenReturn

GenIdle ==
    /\ gpc = "idle"
    /\ gnodes = {}
    /\ num_packets = 0
    /\ gi = 0
    /\ gworkload = <<>>

\* ========================================================================
\* dashboard.py: simulation
\* ========================================================================

LATENCY_PER_HOP_STANDARD == 5
LATENCY_PER_HOP_OPTIMIZED == 3

Neighbours(g, ns) == {v \in g.nodes : \E u \in ns : {u, v} \in g.edges}

RECURSIVE bfs(_, _, _, _, _)
\* breadth-first search from the nodes of frontier, which are depth edges
\* from the source: the number of nodes of a shortest path to target
bfs(g, frontier, seen, target, depth) ==
    IF target \in frontier THEN [found |-> TRUE, len |-> depth + 1]
    ELSE LET next == Neighbours(g, frontier) \ seen
         IN  IF next = {} THEN [found |-> FALSE, len |-> 0]
             ELSE bfs(g, next, seen \cup next, target, depth + 1)

\* nx.shortest_path(topology, source, target): only the length of the path
\* is used by the caller; found = FALSE stands for NetworkXNoPath
shortest_path(g, source, target) == bfs(g, {source}, {source}, target, 0)

hop_count_nodes(path) == path.len

\* hop_count = len(path) - 1
hop_count_of(path) == path.len - 1

packet_end_time_no_start(start_time, packet_travel_time) == packet_travel_time

\* end_time = packet.start_time + packet_travel_time
packet_end_time(start_time, packet_travel_time) == start_time + packet_travel_time

\* Python's true division, kept exact as a numerator over a denominator;
\* error stands for ZeroDivisionError
Div(a, b) == [error |-> (b = 0), num |-> a, den |-> b]

\* the int 0 of the two else branches
Zero == [error |-> FALSE, num |-> 0, den |-> 1]

RECURSIVE sum_latency(_, _)
\* sum(r['latency'] for r in results), from entry k on
sum_latency(rs, k) ==
    IF k > Len(rs) THEN 0 ELSE rs[k].latency + sum_latency(rs, k + 1)

average_of_unguarded(rs) == Div(sum_latency(rs, 1), Len(rs))

\* sum(...) / len(results) if results else 0
average_of(rs) ==
    IF Len(rs) > 0 THEN Div(sum_latency(rs, 1), Len(rs)) ELSE Zero

\* packets_delivered / simulation_end_time if simulation_end_time > 0 else 0
\* (the returned throughput_pps is this value times 1e9)
throughput_of(delivered, end_time) ==
    IF end_time > 0 THEN Div(delivered, end_time) ELSE Zero

\* the graphs simulate_network is run on: every graph on the first
\* 1..MaxSimNodes nodes of a grid row
SimTopologies ==
    UNION { {[nodes |-> GridNodes(1, n), edges |-> es] :
                es \in SUBSET Pairs(GridNodes(1, n))} : n \in 1..MaxSimNodes }

RECURSIVE WorkloadsOfLen(_, _)
\* the workloads of k packets generate_workload builds over a node set:
\* packet i has id i, start time 2 * i and two distinct nodes
WorkloadsOfLen(ns, k) ==
    IF k = 0 THEN {<<>>}
    ELSE {Append(w, Packet(k - 1, pr[1], pr[2], (k - 1) * 2)) :
            w \in WorkloadsOfLen(ns, k - 1),
            pr \in {q \in ns \X ns : q[1] # q[2]}}

Workloads(ns) == UNION {WorkloadsOfLen(ns, k) : k \in 0..MaxPackets}

SimInit ==
    /\ spc = "loop"
    /\ topology \in SimTopologies
    /\ workload \in Workloads(topology.nodes)
    /\ latency_per_hop \in {LATENCY_PER_HOP_STANDARD, LATENCY_PER_HOP_OPTIMIZED}
    /\ si = 1
    /\ results = <<>>
    /\ simulation_end_time = 0
    /\ packets_delivered = 0
    /\ average_latency = Zero
    /\ throughput = Zero

\* one iteration of for packet in workload, a path being found.
\* (Workload nodes are nodes of the topology, as in run_simulation_for_size,
\* so nx.NodeNotFound does not arise.)
SimDeliver ==
    /\ spc = "loop"
    /\ si <= Len(workload)
    /\ LET packet == workload[si]
           path == shortest_path(topology, packet.source, packet.destination)
           hop_count == hop_count_of(path)
           packet_travel_time == hop_count * latency_per_hop
           end_time == packet_end_time(packet.start_time, packet_travel_time)
       IN  /\ path.found
           /\ simulation_end_time' = Max(simulation_end_time, end_time)
           /\ packets_delivered' = packets_delivered + 1
           /\ results' = Append(results, [packet_id |-> packet.id,
                                          latency |-> packet_travel_time,
                                          hop_count |-> hop_count])
    /\ si' = si + 1
    /\ UNCHANGED <<spc, topology, workload, latency_per_hop, average_latency, throughput>>
    /\ UNCHANGED notSimVars

\* one iteration of for packet in workload, nx.NetworkXNoPath being raised
\* and passed over
SimDrop ==
    /\ spc = "loop"
    /\ si <= Len(workload)
    /\ LET packet == workload[si]
       IN  ~shortest_path(topology, packet.source, packet.destination).found
    /\ si' = si + 1
    /\ UNCHANGED <<spc, topology, workload, latency_per_hop, results,
                   simulation_end_time, packets_delivered, average_latency, throughput>>
    /\ UNCHANGED notSimVars

\* the two summary lines and the return; a ZeroDivisionError leaves the
\* function without a result
SimReturn ==
    /\ spc = "loop"
    /\ si > Len(workload)
    /\ LET avg == average_of(results)
           thr == throughput_of(packets_delivered, simulation_end_time)
       IN  IF avg.error \/ thr.error
           THEN /\ spc' = "raised"
                /\ UNCHANGED <<average_latency, throughput>>
           ELSE /\ spc' = "done"
                /\ average_latency' = avg
                /\ throughput' = thr
    /\ UNCHANGED <<topology, workload, latency_per_hop, si, results,
                   simulation_end_time, packets_delivered>>
    /\ UNCHANGED notSimVars

SimNext == SimDeliver \/ SimDrop \/ SimReturn

SimIdle ==
    /\ spc = "idle"
    /\ topology = NoGraph
    /\ workload = <<>>
    /\ latency_per_hop = 0
    /\ si = 0
    /\ results = <<>>
    /\ simulation_end_time = 0
    /\ packets_delivered = 0
    /\ average_latency = Zero
    /\ throughput = Zero

\* ========================================================================
\* Specifications
\* ========================================================================

InitTable == TableInit /\ WalkIdle /\ LinksIdle /\ GenIdle /\ SimIdle

InitWalk == TableIdle /\ WalkInit /\ LinksIdle /\ GenIdle /\ SimIdle

InitLinks == TableIdle /\ WalkIdle /\ LinksInit /\ GenIdle /\ SimIdle

InitWorkload == TableIdle /\ WalkIdle /\ LinksIdle /\ GenInit /\ SimIdle

InitSim == TableIdle /\ WalkIdle /\ LinksIdle /\ GenIdle /\ SimInit

\* the table script
SpecTable == InitTable /\ [][TableNext]_vars

\* xy_next_hop followed hop by hop
SpecWalk == InitWalk /\ [][WalkNext]_vars

\* add_small_world_links
SpecLinks == InitLinks /\ [][LinksNext]_vars

\* generate_workload
SpecWorkload == InitWorkload /\ [][GenNext]_vars

\* simulate_network
SpecSim == InitSim /\ [][SimNext]_vars

\* any one of the routines, run from its start
Init == InitTable \/ InitWalk \/ InitLinks \/ InitWorkload \/ InitSim

Next == TableNext \/ WalkNext \/ LinksNext \/ GenNext \/ SimNext

Spec == Init /\ [][Next]_vars

\* ========================================================================
\* Properties
\* ========================================================================

\* ---- generate_table.py -------------------------------------------------

DimensionPorts == {N, E, S, WDIR, L}

\* the cell [src][dst] has been computed
Emitted(src, dst) ==
    \/ src < Len(table)
    \/ tpc = "cell" /\ src = s /\ dst < Len(row)

EmittedCell(src, dst) ==
    IF src < Len(table) THEN table[src + 1][dst + 1] ELSE row[dst + 1]

WalkDistance == Manhattan(id2coord(wsrc), id2coord(wdst))

\* C1: from any source toward any destination to which no shortcut applies,
\* every hop taken on xy_next_hop's answer stays in the grid and brings the
\* position one step closer, so the walk is at the destination exactly when
\* |dx| + |dy| hops have been taken, and never takes more.
C1_XYWalkTakesManhattanSteps ==
    /\ InGrid(pos)
    /\ steps + Manhattan(pos, id2coord(wdst)) = WalkDistance
    /\ steps <= WalkDistance
    /\ (pos = id2coord(wdst)) <=> (steps = WalkDistance)

\* a walk that turned a corner (both coordinates differed) has arrived
C1_Witness ==
    /\ pos = id2coord(wdst)
    /\ steps = WalkDistance
    /\ id2coord(wsrc)[1] # id2coord(wdst)[1]
    /\ id2coord(wsrc)[2] # id2coord(wdst)[2]
    /\ steps >= 3

\* C2: for every configured shortcut pair (a, b), the cells [a][b] and [b][a]
\* hold the pair's port, which is none of North, East, South, West, Local.
C2_ShortcutCellsHoldShortcutPort ==
    \A k \in 1..Len(shortcut_ports) :
        LET a == shortcut_ports[k][1]
            b == shortcut_ports[k][2]
            port == shortcut_ports[k][3]
        IN  \A c \in {<<a, b>>, <<b, a>>} :
                Emitted(c[1], c[2]) =>
                    /\ EmittedCell(c[1], c[2]) = port
                    /\ EmittedCell(c[1], c[2]) \notin DimensionPorts

\* the finished table holds the first pair's port in its reverse cell, where
\* dimension-order routing would have answered West
C2_Witness ==
    /\ tpc = "done"
    /\ table[shortcut_ports[1][2] + 1][shortcut_ports[1][1] + 1] = shortcut_ports[1][3]
    /\ xy_next_hop(shortcut_ports[1][2], shortcut_ports[1][1]) = WDIR

\* C3: the table has W*H rows when the script ends and never more, every row
\* printed has exactly W*H ports, and every diagonal cell is Local.
C3_TableShapeAndDiagonal ==
    /\ Len(table) <= W * H
    /\ tpc = "done" => Len(table) = W * H
    /\ \A r \in 1..Len(table) : Len(table[r]) = W * H
    /\ \A src \in 0..(W * H - 1) : Emitted(src, src) => EmittedCell(src, src) = L

C3_Witness ==
    /\ tpc = "done"
    /\ Len(table) = W * H
    /\ table[W * H][W * H] = L

\* ---- add_small_world_links ---------------------------------------------

\* the pairs that may become a shortcut: non-edges at Manhattan distance > 1
Eligible(g) ==
    {e \in non_edges(g) : \A u \in e, v \in e : u # v => Manhattan(u, v) > 1}

\* C4: the input graph keeps its nodes and edges throughout the call, and
\* every edge counted as added is a pair the graph did not hold before (the
\* graph's edge count is the input's plus the number of additions).
C4_InputUntouchedNoDuplicateEdge ==
    lpc \in {"while", "sample", "done"} =>
        /\ heap[graph] = graph0
        /\ heap[new_graph].nodes = graph0.nodes
        /\ Cardinality(heap[new_graph].edges)
             = Cardinality(graph0.edges) + added_edges

C4_Witness ==
    /\ lpc = "done"
    /\ added_edges >= 2
    /\ heap[graph] = graph0

\* C5: when the requested count does not exceed the number of eligible
\* pairs of the input, the returned graph holds every input edge plus exactly
\* that many further edges, each at Manhattan distance > 1.
C5_ExactlyKLongEdgesAdded ==
    (lpc = "done" /\ num_shortcuts <= Cardinality(Eligible(graph0))) =>
        LET out == heap[new_graph]
            added == out.edges \ graph0.edges
        IN  /\ out.nodes = graph0.nodes
            /\ graph0.edges \subseteq out.edges
            /\ Cardinality(added) = num_shortcuts
            /\ \A e \in added : \A u \in e, v \in e : u # v => Manhattan(u, v) > 1

\* two shortcuts were asked for and added, on an input lacking a mesh link
C5_Witness ==
    /\ lpc = "done"
    /\ num_shortcuts >= 2
    /\ num_shortcuts <= Cardinality(Eligible(graph0))
    /\ Cardinality(heap[new_graph].edges \ graph0.edges) = num_shortcuts
    /\ graph0 # create_mesh_topology(MaxSide, MaxSide)

C9_FewerThanTwoNodesNeverReturns ==
    Cardinality(gnodes) < 2 => gpc # "done"

\* ---- simulate_network --------------------------------------------------

RECURSIVE Within(_, _, _)
\* the nodes at most k edges away from u
Within(g, u, k) ==
    IF k = 0 THEN {u}
    ELSE LET near == Within(g, u, k - 1)
         IN  near \cup {v \in g.nodes : \E x \in near : {x, v} \in g.edges}

Reachable(g, u, v) == v \in Within(g, u, Cardinality(g.nodes))

\* the minimum number of edges between u and v, v being reachable from u
MinHops(g, u, v) ==
    CHOOSE k \in 0..Cardinality(g.nodes) :
        /\ v \in Within(g, u, k)
        /\ \A j \in 0..(k - 1) : v \notin Within(g, u, j)

\* the positions in the workload of the packets that have a path
Deliverable ==
    {i \in 1..Len(workload) :
        Reachable(topology, workload[i].source, workload[i].destination)}

PacketLatency(i) ==
    MinHops(topology, workload[i].source, workload[i].destination) * latency_per_hop

RECURSIVE SetMax(_, _)
\* the largest f[x] over the non-empty finite set xs
SetMax(f, xs) ==
    LET x == CHOOSE y \in xs : TRUE
    IN  IF xs = {x} THEN f[x] ELSE Max(f[x], SetMax(f, xs \ {x}))

\* C7: with at least one deliverable packet the call returns, and
\* average_latency is non-negative and is the sum over the deliverable
\* packets of minimum hops * latency_per_hop, divided by their number.
C7_AverageIsMeanOverDelivered ==
    (spc \in {"done", "raised"} /\ Deliverable # {}) =>
        /\ spc = "done"
        /\ average_latency.den > 0
        /\ average_latency.num >= 0
        /\ average_latency.num * Cardinality(Deliverable)
             = average_latency.den
                 * SetSum([i \in Deliverable |-> PacketLatency(i)], Deliverable)

\* a run that dropped its first packet and delivered its second
C7_Witness ==
    /\ spc = "done"
    /\ Deliverable = {2}
    /\ Len(workload) = 2
    /\ Len(results) = 1
    /\ average_latency.num = latency_per_hop
    /\ average_latency.den = 1

\* C8: for an empty workload, or one with no deliverable packet, the call
\* returns average_latency 0 and throughput 0 and no per-packet result.
C8_NothingDeliveredGivesZero ==
    (spc \in {"done", "raised"} /\ Deliverable = {}) =>
        /\ spc = "done"
        /\ ~average_latency.error /\ average_latency.num = 0
        /\ ~throughput.error /\ throughput.num = 0
        /\ results = <<>>

\* a workload of packets none of which can be delivered
C8_Witness ==
    /\ spc = "done"
    /\ workload # <<>>
    /\ Deliverable = {}
    /\ average_latency.num = 0
    /\ throughput.num = 0

\* the end of the run as the claim defines it
LastArrival ==
    IF Deliverable = {} THEN 0
    ELSE SetMax([i \in Deliverable |-> workload[i].start_time + PacketLatency(i)],
                Deliverable)

\* C10: packets_delivered counts the deliverable packets, simulation_end_time
\* is the latest start_time + hops * latency_per_hop among them, and
\* throughput is their quotient when the end time is positive, 0 otherwise.
C10_ThroughputIsDeliveredOverEndTime ==
    spc = "done" =>
        /\ packets_delivered = Cardinality(Deliverable)
        /\ simulation_end_time = LastArrival
        /\ ~throughput.error
        /\ IF LastArrival > 0
           THEN /\ throughput.den > 0
                /\ throughput.num * LastArrival
                     = throughput.den * Cardinality(Deliverable)
           ELSE throughput.num = 0

\* a run whose last arrival belongs to a packet that started late, with a
\* packet dropped as well
C10_Witness ==
    /\ spc = "done"
    /\ Cardinality(Deliverable) >= 1
    /\ Deliverable # 1..Len(workload)
    /\ \E i \in Deliverable : workload[i].start_time > 0
    /\ throughput.num = Cardinality(Deliverable)
    /\ throughput.den = LastArrival

====
